---- MODULE Spec2Model ----
(***************************************************************************)
(* Model of bulk_upscale.py: the background batch worker                   *)
(* (process_all_images_worker, upscale_image), the progress queue, and the *)
(* controller handlers of BulkUpscaleGUI (start_processing,                *)
(* stop_processing, poll_queue, _reset_ui).                                *)
(*                                                                         *)
(* Text is modelled as a sequence of one-character strings, so that        *)
(* Path.suffix, str.strip and "u" + name are computed, not assumed.        *)
(***************************************************************************)
EXTENDS Integers, Sequences, FiniteSets, TLC

(* ------------------------------------------------------------------ *)
(* Bounds of the model                                                 *)
(* ------------------------------------------------------------------ *)

\* Number of start_processing calls that pass validation in one behaviour.
MaxJobs == 2

\* Length of the longest source directory listing of specification Spec.
MaxEntries == 3

\* Length of the longest source directory listing of specification SpecEnum.
MaxListing == 3

\* The largest original width of specification SpecWidth.
MaxWidth == 4

(* ------------------------------------------------------------------ *)
(* Text helpers                                                        *)
(* ------------------------------------------------------------------ *)

\* Position of the last "." of a name, 0 when there is none (str.rfind).
RECURSIVE RFindDot(_, _)
RFindDot(s, i) ==
    IF i = 0 THEN 0
    ELSE IF s[i] = "." THEN i
    ELSE RFindDot(s, i - 1)

\* pathlib's PurePath.suffix: the last dot and what follows it, unless the
\* dot is the first or the last character of the name.
Suffix(name) ==
    LET p == RFindDot(name, Len(name))
    IN  IF p > 1 /\ p < Len(name) THEN SubSeq(name, p, Len(name)) ELSE <<>>

\* str.strip() on the entry texts: removes leading and trailing blanks.
RECURSIVE LStrip(_)
LStrip(s) ==
    IF s # <<>> /\ Head(s) = " " THEN LStrip(Tail(s)) ELSE s

RECURSIVE RStrip(_)
RStrip(s) ==
    IF s # <<>> /\ s[Len(s)] = " " THEN RStrip(SubSeq(s, 1, Len(s) - 1)) ELSE s

Strip(s) == RStrip(LStrip(s))

(* ------------------------------------------------------------------ *)
(* Candidate files (process_all_images_worker, lines 128-134)          *)
(* ------------------------------------------------------------------ *)

\* The six spellings the worker accepts.
supported_formats ==
    { <<".", "j", "p", "g">>, <<".", "j", "p", "e", "g">>, <<".", "p", "n", "g">>,
      <<".", "J", "P", "G">>, <<".", "J", "P", "E", "G">>, <<".", "P", "N", "G">> }

\* f.is_file() and f.suffix in supported_formats
IsImageFile(f) == f.is_file /\ Suffix(f.name) \in supported_formats

\* [f for f in src.iterdir() if ...]: the listing filtered, order kept.
ImageFiles(listing) == SelectSeq(listing, IsImageFile)

\* Directory entries the model draws listings from.
Entry(n, isf) == [name |-> n, is_file |-> isf]

Catalog ==
    << Entry(<<"a", ".", "j", "p", "g">>, TRUE),
       Entry(<<"b", ".", "J", "p", "g">>, TRUE),
       Entry(<<"c", ".", "P", "N", "G">>, TRUE),
       Entry(<<"d", ".", "t", "x", "t">>, TRUE),
       Entry(<<"e", ".", "p", "n", "g">>, FALSE),
       Entry(<<"f", ".", "j", "p", "e", "g">>, TRUE),
       Entry(<<".", "p", "n", "g">>, TRUE) >>

\* max(a, b), as in max(1, ...) of lines 90 and 380.
Max(a, b) == IF a > b THEN a ELSE b

\* The source directories of specification Spec: the catalog's prefixes.
Listings == { SubSeq(Catalog, 1, n) : n \in { m \in 0..MaxEntries : m <= Len(Catalog) } }

\* The source directories of specification SpecEnum: every listing of up to
\* MaxListing distinct catalog entries, in every order.
AllListings ==
    UNION { { [i \in 1..n |-> Catalog[f[i]]] :
                f \in { g \in [1..n -> 1..Len(Catalog)] :
                          \A a, b \in 1..n : a # b => g[a] # g[b] } } :
            n \in { m \in 0..MaxListing : m <= Len(Catalog) } }

(* ------------------------------------------------------------------ *)
(* upscale_image (lines 80-121)                                        *)
(* ------------------------------------------------------------------ *)

\* float values the model needs: a finite number in thousandths, or nan.
Num(m) == [kind |-> "num", milli |-> m]
NaN == [kind |-> "nan", milli |-> 0]

\* max(1, int(orig_w * float(scale_factor))) for a finite positive factor:
\* int() truncates the product.
TargetW(orig_w, scale) == Max(1, (orig_w * scale.milli) \div 1000)

\* What the outside world answers during one call of upscale_image:
\*   open    Image.open: "ok" | "raise"
\*   orig_w  the width read from the image header
\*   upload  cloudinary.uploader.upload: "url" | "nourl" | "raise"
\*   get     requests.get: "200" | "500" | "timeout"
\*   mkdir   Path(output_path).parent.mkdir: "ok" | "raise"
\*   write   open(output_path, "wb") and f.write: "ok" | "open_raise" | "write_raise"
EnvOK ==
    [open |-> "ok", orig_w |-> 1000, upload |-> "url", get |-> "200",
     mkdir |-> "ok", write |-> "ok"]

\* The answers the model explores: all well, and each single fault.
Envs ==
    { EnvOK,
      [EnvOK EXCEPT !.orig_w = 3],
      [EnvOK EXCEPT !.open = "raise"],
      [EnvOK EXCEPT !.upload = "raise"],
      [EnvOK EXCEPT !.upload = "nourl"],
      [EnvOK EXCEPT !.get = "timeout"],
      [EnvOK EXCEPT !.get = "500"],
      [EnvOK EXCEPT !.mkdir = "raise"],
      [EnvOK EXCEPT !.write = "open_raise"],
      [EnvOK EXCEPT !.write = "write_raise"] }

\* The answers specification SpecForm explores: all well, and one fault.
FormEnvs == { EnvOK, [EnvOK EXCEPT !.get = "500"] }

Return(ok, msg, file) == [kind |-> "return", ok |-> ok, msg |-> msg, file |-> file]
Raise(exc, file) == [kind |-> "raise", ok |-> FALSE, msg |-> exc, file |-> file]

\* The body of the try block, lines 86-117.  file is what the call did to
\* output_path: "keep" (untouched), "partial" (opened for writing, body not
\* fully written) or "full" (the whole response body written).
UpscaleBody(env, scale) ==
    IF env.open = "raise" THEN Raise("UnidentifiedImageError", "keep")
    ELSE IF scale.kind = "nan" THEN Raise("ValueError", "keep")
    ELSE IF env.upload = "raise" THEN Raise("cloudinary.Error", "keep")
    ELSE IF env.upload = "nourl" THEN Return(FALSE, "Cloudinary did not return a URL", "keep")
    ELSE IF env.get = "timeout" THEN Raise("Timeout", "keep")
    ELSE IF env.get # "200" THEN Return(FALSE, "HTTP 500", "keep")
    ELSE IF env.mkdir = "raise" THEN Raise("OSError", "keep")
    ELSE IF env.write = "open_raise" THEN Raise("PermissionError", "keep")
    ELSE IF env.write = "write_raise" THEN Raise("IOError", "partial")
    ELSE Return(TRUE, "OK", "full")

\* upscale_image without its except clause.
CatchNothing(r) == r

\* except Exception as e: return False, str(e)   (lines 119-121)
CatchException(r) ==
    IF r.kind = "raise" THEN Return(FALSE, r.msg, r.file) ELSE r

upscale_image(env, scale) == CatchException(UpscaleBody(env, scale))

\* No call of cloudinary.uploader.upload yet.
NoUpload == [sent |-> FALSE, orig_w |-> 0, scale |-> Num(0), width |-> 0]

\* Lines 87-99: the upload call one run of upscale_image makes, with the
\* width of its transformation; none when Image.open or int() raised first.
UploadRequest(env, scale) ==
    IF env.open = "raise" \/ scale.kind = "nan" THEN NoUpload
    ELSE [sent |-> TRUE, orig_w |-> env.orig_w, scale |-> scale,
          width |-> TargetW(env.orig_w, scale)]

(* ------------------------------------------------------------------ *)
(* Progress events (the tuples put on the queue)                       *)
(* ------------------------------------------------------------------ *)

\* One record shape for all five tuples; the fields a tuple does not carry
\* hold a default.  job is the number of the start_processing call whose
\* worker pushed the event (a history tag, not part of the Python tuple).
Event(typ, j, idx, ok, name, msg, succ, tot) ==
    [typ |-> typ, job |-> j, idx |-> idx, ok |-> ok, name |-> name, msg |-> msg,
     successful |-> succ, total |-> tot]

EvTotal(j, n) == Event("total", j, 0, FALSE, <<>>, "", 0, n)
EvStatus(j, idx, tot, name) == Event("status", j, idx, FALSE, name, "", 0, tot)
EvProgress(j, idx, ok, name, msg) == Event("progress", j, idx, ok, name, msg, 0, 0)
EvStopped(j) == Event("stopped", j, 0, FALSE, <<>>, "Processing stopped by user", 0, 0)
EvDoneAttempted(j, succ, tot) == Event("done", j, 0, FALSE, <<>>, "", succ, succ)

EvDone(j, succ, tot) == Event("done", j, 0, FALSE, <<>>, "", succ, tot)

\* Queue.put on the unbounded FIFO queue.
QueuePut(q, e) == Append(q, e)

(* ------------------------------------------------------------------ *)
(* State                                                               *)
(* ------------------------------------------------------------------ *)

VARIABLES
    btn_start,      \* state of the start button: "normal" | "disabled"
    btn_stop,       \* state of the stop button
    status_var,     \* the status line
    progress,       \* the progress bar: [value, maximum]
    log_last,       \* the last line appended to the log widget
    stop_flag,      \* threading.Event shared with the worker
    queue,          \* self.queue
    worker,         \* the worker threads, by job number
    njobs,          \* number of worker threads started so far
    config_file,    \* content of config.json
    cloudinary_cfg, \* the process-wide cloudinary configuration
    out_files,      \* files in the destination directory: {[name, content, job]}
    src_dir,        \* the source directory as src.iterdir() lists it
    ctl,            \* controller position: "idle" (event loop) | "poll"
    ask_open,       \* the stop confirmation dialog is open
    errbox,         \* the validation error box that is open, or "none"
    pushed,         \* history: events put on the queue since the last start
    consumed,       \* history: events taken from the queue since the last start
    stop_at,        \* history: per job, the number of files attempted when the
                    \* flag was set since the last start, -1 if it was not
    uploaded        \* history: the latest call of cloudinary.uploader.upload
                    \* since the last start: [sent, orig_w, scale, width]

ui == <<btn_start, btn_stop, status_var, progress, log_last>>
job_state == <<stop_flag, queue, worker, njobs, config_file, cloudinary_cfg, out_files,
               src_dir>>
history == <<pushed, consumed, stop_at, uploaded>>
vars == <<btn_start, btn_stop, status_var, progress, log_last, stop_flag, queue,
          worker, njobs, config_file, cloudinary_cfg, out_files, src_dir, ctl,
          ask_open, errbox, pushed, consumed, stop_at, uploaded>>

Jobs == 1..MaxJobs

\* The status line: one of the fixed texts, or the text of a status event.
StatusText(kind) == [kind |-> kind, idx |-> 0, total |-> 0, name |-> <<>>]
StatusOf(e) == [kind |-> "file", idx |-> e.idx, total |-> e.total, name |-> e.name]

NoWorker ==
    [pc |-> "unborn", scale_f |-> Num(0), image_files |-> <<>>, total |-> 0,
     idx |-> 0, successful |-> 0]

\* A configuration record; set is FALSE while nothing was written yet.
Config(isset, name, key, secret) ==
    [set |-> isset, cloud_name |-> name, api_key |-> key, api_secret |-> secret]

NoConfig == Config(FALSE, <<>>, <<>>, <<>>)

\* A line of the log widget, by the format that made it ("total", "ok",
\* "error", "stopped", "done") and the index it shows.
LogLine(fmt, e) == [fmt |-> fmt, idx |-> e.idx]
NoEvent == Event("none", 0, 0, FALSE, <<>>, "", 0, 0)

\* After BulkUpscaleGUI.__init__ (lines 209-217) and _build_ui (lines 291-300),
\* with no config.json on disk and a source directory among dirs.
InitWith(dirs) ==
    /\ src_dir \in dirs
    /\ btn_start = "normal"
    /\ btn_stop = "disabled"
    /\ status_var = StatusText("ready")
    /\ progress = [value |-> 0, maximum |-> 100]
    /\ log_last = LogLine("none", NoEvent)
    /\ stop_flag = FALSE
    /\ queue = <<>>
    /\ worker = [j \in Jobs |-> NoWorker]
    /\ njobs = 0
    /\ config_file = NoConfig
    /\ cloudinary_cfg = NoConfig
    /\ out_files = {}
    /\ ctl = "idle"
    /\ ask_open = FALSE
    /\ errbox = "none"
    /\ pushed = <<>>
    /\ consumed = <<>>
    /\ stop_at = [j \in Jobs |-> -1]
    /\ uploaded = NoUpload

Init == InitWith(Listings)

(* ------------------------------------------------------------------ *)
(* The worker thread: process_all_images_worker (lines 124-155)        *)
(* ------------------------------------------------------------------ *)

\* queue.put(e) by the worker, with the history of pushes.
Push(e) ==
    /\ queue' = QueuePut(queue, e)
    /\ pushed' = Append(pushed, e)

\* The worker after an exception nothing catches: the thread has ended and
\* its locals are gone.
Crashed(w) == [NoWorker EXCEPT !.pc = "crashed"]

\* Line 131: out.mkdir(parents=True, exist_ok=True) creates the destination
\* or raises (the path is a regular file, permission denied, ...).
WorkerMkdir(j) ==
    /\ worker[j].pc = "mkdir"
    /\ \E r \in {"ok", "raise"} :
         worker' = [worker EXCEPT ![j] =
                      IF r = "ok" THEN [@ EXCEPT !.pc = "enum"] ELSE Crashed(@)]
    /\ UNCHANGED <<ui, stop_flag, queue, njobs, config_file, cloudinary_cfg,
                   out_files, src_dir, ctl, ask_open, errbox, history>>

\* Lines 133-137, the listing succeeds: the candidates are fixed, the total
\* is put on the queue.
WorkerEnumerate(j) ==
    /\ worker[j].pc = "enum"
    /\ LET files == ImageFiles(src_dir)
       IN  /\ worker' = [worker EXCEPT ![j] =
                           [@ EXCEPT !.pc = "loop", !.image_files = files,
                                     !.total = Len(files), !.idx = 1,
                                     !.successful = 0]]
           /\ Push(EvTotal(j, Len(files)))
    /\ UNCHANGED <<ui, stop_flag, njobs, config_file, cloudinary_cfg, out_files,
                   src_dir, ctl, ask_open, errbox, consumed, stop_at, uploaded>>

\* Line 133, src.iterdir() raises (the source directory is gone or unreadable).
WorkerEnumerateFails(j) ==
    /\ worker[j].pc = "enum"
    /\ worker' = [worker EXCEPT ![j] = Crashed(@)]
    /\ UNCHANGED <<ui, stop_flag, queue, njobs, config_file, cloudinary_cfg,
                   out_files, src_dir, ctl, ask_open, errbox, history>>

\* start_processing without its stop_flag.clear().
clear_skipped(flag) == flag

\* stop_flag.clear() (line 356): the value of the flag afterwards.
clear(flag) == FALSE

\* stop_flag.is_set() (line 139)
is_set_never(flag) == FALSE

is_set(flag) == flag

\* WorkerLoopTop with the break after Stopped left out.
WorkerLoopTopNoBreak(j) ==
    LET w == worker[j]
    IN  /\ w.pc = "loop"
        /\ \/ /\ w.idx > w.total
              /\ worker' = [worker EXCEPT ![j].pc = "done"]
              /\ UNCHANGED <<queue, pushed>>
           \/ /\ w.idx <= w.total
              /\ stop_flag
              /\ Push(EvStopped(j))
              /\ worker' = [worker EXCEPT ![j].pc = "upscale"]
           \/ /\ w.idx <= w.total
              /\ ~stop_flag
              /\ Push(EvStatus(j, w.idx, w.total, w.image_files[w.idx].name))
              /\ worker' = [worker EXCEPT ![j].pc = "upscale"]
        /\ UNCHANGED <<ui, stop_flag, njobs, config_file, cloudinary_cfg, out_files,
                       src_dir, ctl, ask_open, errbox, consumed, stop_at, uploaded>>

\* Lines 138-146, the top of one iteration: the list is exhausted, or the
\* flag is set (stopped is put, the loop breaks), or the status is put.
WorkerLoopTop(j) ==
    LET w == worker[j]
    IN  /\ w.pc = "loop"
        /\ \/ /\ w.idx > w.total
              /\ worker' = [worker EXCEPT ![j].pc = "done"]
              /\ UNCHANGED <<queue, pushed>>
           \/ /\ w.idx <= w.total
              /\ is_set(stop_flag)
              /\ Push(EvStopped(j))
              /\ worker' = [worker EXCEPT ![j].pc = "done"]
           \/ /\ w.idx <= w.total
              /\ ~is_set(stop_flag)
              /\ Push(EvStatus(j, w.idx, w.total, w.image_files[w.idx].name))
              /\ worker' = [worker EXCEPT ![j].pc = "upscale"]
        /\ UNCHANGED <<ui, stop_flag, njobs, config_file, cloudinary_cfg, out_files,
                       src_dir, ctl, ask_open, errbox, consumed, stop_at, uploaded>>

\* out_name = "u" + image_path.name   (line 143)
OutName(name) == <<"u">> \o name

\* What a call of upscale_image leaves at output_path.  job is the number of
\* the job whose worker wrote the file last (a history tag).
WriteFile(files, name, effect, j) ==
    IF effect = "keep" THEN files
    ELSE { f \in files : f.name # name }
         \cup {[name |-> name, content |-> effect, job |-> j]}

\* Lines 147-153: one call of upscale_image and the progress event for it.
\* An exception leaving upscale_image would end the thread.
WorkerUpscale(j, envs) ==
    LET w == worker[j]
        name == w.image_files[w.idx].name
    IN  /\ w.pc = "upscale"
        /\ \E env \in envs :
             LET r == upscale_image(env, w.scale_f)
                 req == UploadRequest(env, w.scale_f)
             IN  /\ uploaded' = IF req.sent THEN req ELSE uploaded
                 /\ IF r.kind = "raise"
                    THEN /\ worker' = [worker EXCEPT ![j] = Crashed(@)]
                         /\ out_files' = WriteFile(out_files, OutName(name), r.file, j)
                         /\ UNCHANGED <<queue, pushed>>
                    ELSE /\ worker' = [worker EXCEPT ![j] =
                                         [@ EXCEPT !.pc = "loop", !.idx = w.idx + 1,
                                                   !.successful =
                                                      IF r.ok THEN w.successful + 1
                                                      ELSE w.successful]]
                         /\ out_files' = WriteFile(out_files, OutName(name), r.file, j)
                         /\ Push(EvProgress(j, w.idx, r.ok, name,
                                            IF r.ok THEN "" ELSE r.msg))
        /\ UNCHANGED <<ui, stop_flag, njobs, config_file, cloudinary_cfg, src_dir,
                       ctl, ask_open, errbox, consumed, stop_at>>

\* A worker that re-enables the start button and sets the status itself
\* when it ends.
WorkerDoneTouchesUI(j) ==
    LET w == worker[j]
    IN  /\ w.pc = "done"
        /\ Push(EvDone(j, w.successful, w.total))
        /\ worker' = [worker EXCEPT ![j] = [NoWorker EXCEPT !.pc = "finished"]]
        /\ btn_start' = "normal"
        /\ status_var' = StatusText("ready")
        /\ UNCHANGED <<btn_stop, progress, log_last, stop_flag, njobs, config_file,
                       cloudinary_cfg, out_files, src_dir, ctl, ask_open, errbox,
                       consumed, stop_at, uploaded>>

\* Line 155: queue.put(("done", (successful, total))); the thread ends and
\* its locals are gone.
WorkerDone(j) ==
    LET w == worker[j]
    IN  /\ w.pc = "done"
        /\ Push(EvDone(j, w.successful, w.total))
        /\ worker' = [worker EXCEPT ![j] = [NoWorker EXCEPT !.pc = "finished"]]
        /\ UNCHANGED <<ui, stop_flag, njobs, config_file, cloudinary_cfg, out_files,
                       src_dir, ctl, ask_open, errbox, consumed, stop_at, uploaded>>

\* The worker gives up the file in flight as soon as the flag is set.
WorkerUpscaleAbort(j) ==
    /\ worker[j].pc = "upscale"
    /\ stop_flag
    /\ Push(EvStopped(j))
    /\ worker' = [worker EXCEPT ![j].pc = "done"]
    /\ UNCHANGED <<ui, stop_flag, njobs, config_file, cloudinary_cfg, out_files,
                   src_dir, ctl, ask_open, errbox, consumed, stop_at, uploaded>>

\* A worker that can be interrupted in the middle of a file.
WorkerNextPreemptive(j, envs) ==
    \/ WorkerMkdir(j)
    \/ WorkerEnumerate(j)
    \/ WorkerEnumerateFails(j)
    \/ WorkerLoopTop(j)
    \/ WorkerUpscale(j, envs)
    \/ WorkerUpscaleAbort(j)
    \/ WorkerDone(j)

WorkerNext(j, envs) ==
    \/ WorkerMkdir(j)
    \/ WorkerEnumerate(j)
    \/ WorkerEnumerateFails(j)
    \/ WorkerLoopTop(j)
    \/ WorkerUpscale(j, envs)
    \/ WorkerDone(j)

\* A worker thread exists and has not ended.
Active(j) == worker[j].pc \in {"mkdir", "enum", "loop", "upscale", "done"}

\* Files whose stop check has passed (the files attempted so far).
Attempted(w) ==
    IF w.idx = 0 THEN 0
    ELSE IF w.pc = "upscale" THEN w.idx
    ELSE w.idx - 1

(* ------------------------------------------------------------------ *)
(* The controller: start_processing (lines 313-364)                    *)
(* ------------------------------------------------------------------ *)

\* float(text) on the scale texts the model enters: the value, or an error.
PyFloat(text) ==
    CASE text = <<"2", ".", "0">> -> [err |-> FALSE, val |-> Num(2000)]
      [] text = <<"1", ".", "5">> -> [err |-> FALSE, val |-> Num(1500)]
      [] text = <<"0", ".", "6">> -> [err |-> FALSE, val |-> Num(600)]
      [] text = <<"0", ".", "1">> -> [err |-> FALSE, val |-> Num(100)]
      [] text = <<"0">>           -> [err |-> FALSE, val |-> Num(0)]
      [] text = <<"-", "1">>      -> [err |-> FALSE, val |-> Num(-1000)]
      [] text = <<"n", "a", "n">> -> [err |-> FALSE, val |-> NaN]
      [] OTHER                    -> [err |-> TRUE, val |-> Num(0)]

\* What the entries and the checkbox hold when the start button is pressed;
\* source_isdir is what os.path.isdir(source) answers, save_ok whether
\* save_config manages to write config.json.
ValidInput ==
    [name |-> <<"n", " ">>, key |-> <<"k">>, secret |-> <<"s">>,
     source |-> <<"i", "n">>, source_isdir |-> TRUE, output |-> <<"o", "u", "t">>,
     scale |-> <<"2", ".", "0">>, save_secret |-> TRUE, save_ok |-> TRUE]

\* The inputs the model explores: a valid form, the form with one field
\* changed, and the form with the checkbox off while config.json cannot be
\* written.
StartInputs ==
    {ValidInput}
    \cup { [ValidInput EXCEPT !.name = t] : t \in { <<>>, <<" ">> } }
    \cup { [ValidInput EXCEPT !.key = <<>>] }
    \cup { [ValidInput EXCEPT !.secret = <<>>] }
    \cup { [ValidInput EXCEPT !.source = <<>>] }
    \cup { [ValidInput EXCEPT !.source_isdir = FALSE] }
    \cup { [ValidInput EXCEPT !.output = t] : t \in { <<>>, <<" ">> } }
    \cup { [ValidInput EXCEPT !.scale = t] :
             t \in { <<"0">>, <<"-", "1">>, <<"n", "a", "n">>, <<"a", "b", "c">>, <<>> } }
    \cup { [ValidInput EXCEPT !.save_secret = FALSE] }
    \cup { [ValidInput EXCEPT !.save_ok = FALSE] }
    \cup { [ValidInput EXCEPT !.save_secret = FALSE, !.save_ok = FALSE] }

\* The inputs of specification Spec: those of StartInputs that enter the
\* secret, tick the checkbox and find config.json writable.
MainInputs ==
    { in \in StartInputs :
        in.secret = ValidInput.secret /\ in.save_secret /\ in.save_ok }

\* scale_f <= 0 (line 336); every comparison with nan is false.
NotPositive(v) == v.kind = "num" /\ v.milli <= 0

\* Lines 322-340: the message of the first check that fails, or "ok".
Validate(in) ==
    IF Strip(in.name) = <<>> \/ Strip(in.key) = <<>> THEN "creds"
    ELSE IF Strip(in.source) = <<>> \/ ~in.source_isdir THEN "source"
    ELSE IF Strip(in.output) = <<>> THEN "output"
    ELSE IF PyFloat(Strip(in.scale)).err \/ NotPositive(PyFloat(Strip(in.scale)).val)
         THEN "scale"
    ELSE "ok"

\* A start button that can be pressed whatever its state.
CanPressStartAnytime ==
    /\ ctl = "idle"
    /\ ~ask_open
    /\ errbox = "none"

\* The start button can be pressed: the event loop is idle, no modal dialog
\* is open and the button is enabled.
CanPressStart ==
    /\ ctl = "idle"
    /\ ~ask_open
    /\ errbox = "none"
    /\ btn_start = "normal"

\* A check fails: messagebox.showerror, return.
StartRejected(in) ==
    /\ CanPressStart
    /\ Validate(in) # "ok"
    /\ errbox' = Validate(in)
    /\ UNCHANGED <<ui, job_state, ctl, ask_open, history>>

\* Lines 343-347: the record saved to config.json.
SavedConfig(in) ==
    Config(TRUE, Strip(in.name), Strip(in.key),
           IF in.save_secret THEN Strip(in.secret) ELSE <<>>)

\* The start button left enabled while a job runs.
StartButtonsLeftOn == [start |-> "normal", stop |-> "normal"]

\* Lines 354-355: the buttons while a job runs.
StartButtons == [start |-> "disabled", stop |-> "normal"]

\* All checks pass, lines 342-364.  save_config either writes the record or
\* fails and logs (lines 52-56).
StartAccepted(in) ==
    /\ CanPressStart
    /\ Validate(in) = "ok"
    /\ njobs < MaxJobs
    /\ config_file' = IF in.save_ok THEN SavedConfig(in) ELSE config_file
    /\ cloudinary_cfg' = Config(TRUE, Strip(in.name), Strip(in.key), Strip(in.secret))
    /\ btn_start' = StartButtons.start
    /\ btn_stop' = StartButtons.stop
    /\ stop_flag' = clear(stop_flag)
    /\ progress' = [progress EXCEPT !.value = 0]
    /\ status_var' = StatusText("starting")
    /\ njobs' = njobs + 1
    /\ worker' = [worker EXCEPT ![njobs + 1] =
                    [NoWorker EXCEPT !.pc = "mkdir",
                                     !.scale_f = PyFloat(Strip(in.scale)).val]]
    /\ pushed' = <<>>
    /\ consumed' = <<>>
    /\ stop_at' = [j \in Jobs |-> -1]
    /\ uploaded' = NoUpload
    /\ UNCHANGED <<log_last, queue, out_files, src_dir, ctl, ask_open, errbox>>

start_processing(in) == StartRejected(in) \/ StartAccepted(in)

\* The user closes the error box.
ErrDismiss ==
    /\ ctl = "idle"
    /\ errbox # "none"
    /\ errbox' = "none"
    /\ UNCHANGED <<ui, job_state, ctl, ask_open, history>>

(* ------------------------------------------------------------------ *)
(* stop_processing (lines 366-370)                                     *)
(* ------------------------------------------------------------------ *)

\* The stop button is pressed: messagebox.askyesno opens.  The dialog is
\* modal, but the event loop keeps running the poll timer while it is open.
StopClick ==
    /\ ctl = "idle"
    /\ ~ask_open
    /\ errbox = "none"
    /\ btn_stop = "normal"
    /\ ask_open' = TRUE
    /\ UNCHANGED <<ui, job_state, ctl, errbox, history>>

\* The user answers the dialog; on yes, lines 368-370.
StopAnswer(yes) ==
    /\ ctl = "idle"
    /\ ask_open
    /\ ask_open' = FALSE
    /\ IF yes
       THEN /\ stop_flag' = TRUE
            /\ status_var' = StatusText("waiting")
            /\ btn_stop' = "disabled"
            /\ stop_at' = [j \in Jobs |->
                             IF Active(j) /\ stop_at[j] = -1
                             THEN Attempted(worker[j]) ELSE stop_at[j]]
       ELSE UNCHANGED <<stop_flag, status_var, btn_stop, stop_at>>
    /\ UNCHANGED <<btn_start, progress, log_last, queue, worker, njobs, config_file,
                   cloudinary_cfg, out_files, src_dir, ctl, errbox, pushed, consumed,
                   uploaded>>

(* ------------------------------------------------------------------ *)
(* poll_queue (lines 372-401) and _reset_ui (lines 410-414)            *)
(* ------------------------------------------------------------------ *)

\* The timer set by root.after(200, self.poll_queue) fires.
PollStart ==
    /\ ctl = "idle"
    /\ ctl' = "poll"
    /\ UNCHANGED <<ui, job_state, ask_open, errbox, history>>

\* _reset_ui: the widgets of the idle state.
reset_ui ==
    [start |-> "normal", stop |-> "disabled", status |-> StatusText("ready"), value |-> 0]

\* A queue handing out the newest item first.
GetNewest(q) == [item |-> q[Len(q)], rest |-> SubSeq(q, 1, Len(q) - 1)]

\* queue.get_nowait() on the FIFO queue: the item taken and the rest.
GetNowait(q) == [item |-> Head(q), rest |-> Tail(q)]

\* One turn of the while loop: an item is taken and handled (lines 375-397).
\* The info box shown for done is modal; _reset_ui runs when it is closed.
PollGet ==
    /\ ctl = "poll"
    /\ queue # <<>>
    /\ LET e == GetNowait(queue).item
       IN  /\ queue' = GetNowait(queue).rest
           /\ consumed' = Append(consumed, e)
           /\ \/ /\ e.typ = "total"
                 /\ progress' = [progress EXCEPT !.maximum = Max(1, e.total)]
                 /\ log_last' = LogLine("total", e)
                 /\ UNCHANGED <<btn_start, btn_stop, status_var>>
              \/ /\ e.typ = "status"
                 /\ status_var' = StatusOf(e)
                 /\ UNCHANGED <<btn_start, btn_stop, progress, log_last>>
              \/ /\ e.typ = "progress"
                 /\ progress' = [progress EXCEPT !.value = e.idx]
                 /\ log_last' = LogLine(IF e.ok THEN "ok" ELSE "error", e)
                 /\ UNCHANGED <<btn_start, btn_stop, status_var>>
              \/ /\ e.typ = "stopped"
                 /\ log_last' = LogLine("stopped", e)
                 /\ UNCHANGED <<btn_start, btn_stop, status_var, progress>>
              \/ /\ e.typ = "done"
                 /\ log_last' = LogLine("done", e)
                 /\ btn_start' = reset_ui.start
                 /\ btn_stop' = reset_ui.stop
                 /\ status_var' = reset_ui.status
                 /\ progress' = [progress EXCEPT !.value = reset_ui.value]
    /\ UNCHANGED <<stop_flag, worker, njobs, config_file, cloudinary_cfg, out_files,
                   src_dir, ctl, ask_open, errbox, pushed, stop_at, uploaded>>

\* poll_queue returning after any turn of its loop, the queue drained or not.
PollReturn ==
    /\ ctl = "poll"
    /\ ctl' = "idle"
    /\ UNCHANGED <<ui, job_state, ask_open, errbox, history>>

\* get_nowait raises Empty: the loop ends, the next poll is scheduled.
PollEmpty ==
    /\ ctl = "poll"
    /\ queue = <<>>
    /\ ctl' = "idle"
    /\ UNCHANGED <<ui, job_state, ask_open, errbox, history>>

(* ------------------------------------------------------------------ *)
(* Specification                                                       *)
(* ------------------------------------------------------------------ *)

\* The steps of the worker threads and of the controller, for the form
\* inputs of inputs and the outside answers of envs.
NextWith(inputs, envs) ==
    \/ \E j \in Jobs : WorkerNext(j, envs)
    \/ \E in \in inputs : start_processing(in)
    \/ ErrDismiss
    \/ StopClick
    \/ \E yes \in BOOLEAN : StopAnswer(yes)
    \/ PollStart
    \/ PollGet
    \/ PollEmpty

Next == NextWith(MainInputs, Envs)

\* The whole program, every outside fault, the form filled with the secret.
Spec == Init /\ [][Next]_vars

NextForm == NextWith(StartInputs, FormEnvs)

\* The whole program, every form input, few outside faults.
SpecForm == Init /\ [][NextForm]_vars

\* The enumeration phase of the first job alone, over every source directory
\* of AllListings.
NextEnum ==
    \/ StartAccepted(ValidInput)
    \/ WorkerMkdir(1)
    \/ WorkerEnumerate(1)
    \/ WorkerEnumerateFails(1)

SpecEnum == InitWith(AllListings) /\ [][NextEnum]_vars

NextFair == NextWith(MainInputs, FormEnvs)

\* The whole program with few outside faults, the poll timer firing again
\* and again (root.after in the finally clause, line 401) and a poll that
\* has begun running on: the event loop runs the callback to its end.
SpecFair ==
    /\ Init
    /\ [][NextFair]_vars
    /\ WF_vars(PollStart)
    /\ WF_vars(PollGet)
    /\ WF_vars(PollEmpty)

\* The forms of specification SpecWidth: the valid form with each scale text.
WidthInputs ==
    { [ValidInput EXCEPT !.scale = t] :
        t \in { <<"2", ".", "0">>, <<"1", ".", "5">>, <<"0", ".", "6">>,
                <<"0", ".", "1">> } }

\* The answers of specification SpecWidth: all well, for each original width.
WidthEnvs == { [EnvOK EXCEPT !.orig_w = w] : w \in (1..MaxWidth) \cup {1000} }

\* The first job alone, never cancelled and never polled, over every scale
\* text of WidthInputs and every original width of WidthEnvs.
NextWidth ==
    \/ \E in \in WidthInputs : StartAccepted(in)
    \/ WorkerNext(1, WidthEnvs)

SpecWidth == Init /\ [][NextWidth]_vars

(* ------------------------------------------------------------------ *)
(* Event sequences of a job                                            *)
(* ------------------------------------------------------------------ *)

\* The events job j has pushed since the last start, in push order.
JobEvents(j) == SelectSeq(pushed, LAMBDA e : e.job = j)

OfType(ev, t) == SelectSeq(ev, LAMBDA e : e.typ = t)

Results(j) == OfType(JobEvents(j), "progress")

Successes(j) == Len(SelectSeq(Results(j), LAMBDA e : e.ok))

\* The number of candidate files of the source directory.
NCandidates == Len(ImageFiles(src_dir))

\* process_all_images_worker has returned for job j, the latest job.
Returned(j) == j = njobs /\ worker[j].pc = "finished"

\* The job's last event is its only Done, carrying (successful, N).
EndsWithDone(j) ==
    LET ev == JobEvents(j)
    IN  /\ Len(OfType(ev, "done")) = 1
        /\ ev # <<>>
        /\ ev[Len(ev)].typ = "done"
        /\ ev[Len(ev)].total = NCandidates
        /\ ev[Len(ev)].successful = Successes(j)

(* ------------------------------------------------------------------ *)
(* C1                                                                  *)
(* ------------------------------------------------------------------ *)

\* C1: a job over N candidate files during which the stop flag is never set
\* has, once the worker has returned, pushed exactly one Total{N}, exactly N
\* Result events with indices 1..N in this order, and as its last event
\* exactly one Done{successful, N}, successful being the number of Result
\* events with success = true.
C1_NoCancelEvents ==
    \A j \in Jobs :
        (Returned(j) /\ stop_at[j] = -1) =>
            LET ev == JobEvents(j)
            IN  /\ Len(OfType(ev, "total")) = 1
                /\ OfType(ev, "total")[1].total = NCandidates
                /\ Len(Results(j)) = NCandidates
                /\ \A i \in 1..Len(Results(j)) : Results(j)[i].idx = i
                /\ EndsWithDone(j)

\* A job of two files, never cancelled, with one success and one failure.
C1_Witness ==
    \E j \in Jobs :
        /\ Returned(j)
        /\ stop_at[j] = -1
        /\ Len(Results(j)) = 2
        /\ Results(j)[1].ok
        /\ ~Results(j)[2].ok

(* ------------------------------------------------------------------ *)
(* C2                                                                  *)
(* ------------------------------------------------------------------ *)

\* C2: if the stop flag is set when k-1 files have been attempted
\* (1 <= k <= N), the job pushes at most k-1 Result events, exactly one
\* Stopped, and as its last event exactly one Done whose total is N and whose
\* successful count is the number of successful Results pushed.
C2_CancelEvents ==
    \A j \in Jobs :
        (Returned(j) /\ stop_at[j] >= 0 /\ stop_at[j] < NCandidates) =>
            /\ Len(Results(j)) <= stop_at[j]
            /\ Len(OfType(JobEvents(j), "stopped")) = 1
            /\ EndsWithDone(j)

\* The flag is set after the first of two files: Total{2}, one successful
\* Result, Stopped, Done{1,2}.
C2_Witness ==
    \E j \in Jobs :
        /\ Returned(j)
        /\ stop_at[j] = 1
        /\ NCandidates = 2
        /\ Len(Results(j)) = 1
        /\ Results(j)[1].ok
        /\ JobEvents(j)[Len(JobEvents(j))].successful = 1
        /\ JobEvents(j)[Len(JobEvents(j))].total = 2

(* ------------------------------------------------------------------ *)
(* C3                                                                  *)
(* ------------------------------------------------------------------ *)

\* C3: at every moment of a job, cancelled or not, the events it has pushed
\* hold at most one Total, which precedes every Result; the Results carry the
\* indices 1, 2, 3, ... without gaps, one for each file attempted; nothing is
\* pushed after Done; after Stopped only Done is pushed; and when the worker
\* has returned there is exactly one Total and the last event is Done.
C3_EventOrder ==
    \A j \in Jobs :
        LET ev == JobEvents(j)
            res == Results(j)
        IN  /\ Len(OfType(ev, "total")) <= 1
            /\ \A p \in 1..Len(ev) :
                  ev[p].typ = "progress" => \E q \in 1..(p - 1) : ev[q].typ = "total"
            /\ \A i \in 1..Len(res) : res[i].idx = i
            /\ (j = njobs /\ Active(j)) =>
                  Len(res) = IF worker[j].pc = "upscale"
                             THEN Attempted(worker[j]) - 1
                             ELSE Attempted(worker[j])
            /\ Len(res) <= NCandidates
            /\ \A p \in 1..Len(ev) : ev[p].typ = "done" => p = Len(ev)
            /\ \A p, q \in 1..Len(ev) :
                  (ev[p].typ = "stopped" /\ p < q) => ev[q].typ = "done"
            /\ Returned(j) =>
                  /\ Len(OfType(ev, "total")) = 1
                  /\ ev[Len(ev)].typ = "done"

\* A cancelled job that has returned: a Result, then Stopped, then Done.
C3_Witness ==
    \E j \in Jobs :
        LET ev == JobEvents(j)
        IN  /\ Returned(j)
            /\ Len(Results(j)) = 1
            /\ Len(ev) = 5
            /\ ev[4].typ = "stopped"
            /\ ev[5].typ = "done"

(* ------------------------------------------------------------------ *)
(* C4                                                                  *)
(* ------------------------------------------------------------------ *)

\* The worker thread of job j, the latest job, has ended.
Ended(j) == j = njobs /\ worker[j].pc \in {"finished", "crashed"}

\* C4 as claimed: every started job whose worker thread has ended has pushed
\* exactly one Done, whatever operation failed during the run.
C4_DoneAlways ==
    \A j \in Jobs : Ended(j) => Len(OfType(JobEvents(j), "done")) = 1

(* ------------------------------------------------------------------ *)
(* C5                                                                  *)
(* ------------------------------------------------------------------ *)

\* C5: whatever happens while file i is processed, the step of the worker
\* that processes it pushes exactly one Result{i, success, detail} (success
\* only with the complete output written, a failure with its detail), never
\* ends the thread, and leaves the worker at the top of the loop with file
\* i+1 next, after a failure exactly as after a success.
C5_FailureContained ==
    [][\A j \in Jobs :
          (worker[j].pc = "upscale" /\ worker'[j] # worker[j]) =>
              LET w == worker[j]
                  e == pushed'[Len(pushed')]
              IN  /\ worker'[j].pc = "loop"
                  /\ worker'[j].idx = w.idx + 1
                  /\ worker'[j].image_files = w.image_files
                  /\ worker'[j].total = w.total
                  /\ Len(pushed') = Len(pushed) + 1
                  /\ SubSeq(pushed', 1, Len(pushed)) = pushed
                  /\ e.typ = "progress"
                  /\ e.job = j
                  /\ e.idx = w.idx
                  /\ e.ok =>
                        /\ worker'[j].successful = w.successful + 1
                        /\ [name |-> OutName(w.image_files[w.idx].name),
                            content |-> "full", job |-> j] \in out_files'
                  /\ ~e.ok =>
                        /\ worker'[j].successful = w.successful
                        /\ e.msg # ""
                        /\ e.name = w.image_files[w.idx].name
    ]_vars

\* The first file failed by an exception, and the second file was processed
\* and succeeded.
C5_Witness ==
    \E j \in Jobs :
        /\ Len(Results(j)) = 2
        /\ ~Results(j)[1].ok
        /\ Results(j)[1].msg = "Timeout"
        /\ Results(j)[2].ok

(* ------------------------------------------------------------------ *)
(* C6                                                                  *)
(* ------------------------------------------------------------------ *)

\* C6: at every moment the events the controller has consumed are a prefix of
\* the events pushed, and the events pushed are exactly those consumed
\* followed by those still on the queue: delivery is in push order, nothing
\* is dropped and nothing is delivered twice.
C6_FifoDelivery ==
    /\ Len(consumed) <= Len(pushed)
    /\ SubSeq(pushed, 1, Len(consumed)) = consumed
    /\ pushed = consumed \o queue

\* The controller is in the middle of a poll, has consumed some events, and
\* two more are waiting while the worker is still running.
C6_Witness ==
    /\ ctl = "poll"
    /\ Len(consumed) >= 2
    /\ Len(queue) >= 2
    /\ \E j \in Jobs : Active(j)

(* ------------------------------------------------------------------ *)
(* C7                                                                  *)
(* ------------------------------------------------------------------ *)

\* The controller has consumed the Done event of job j.
DoneConsumed(j) ==
    \E i \in 1..Len(consumed) : consumed[i].typ = "done" /\ consumed[i].job = j

\* C7: at most one worker thread is active at any time, and from the start of
\* a job until the controller has consumed its Done the start button is
\* disabled, so start_processing cannot run.
C7_SingleWorker ==
    /\ Cardinality({ j \in Jobs : Active(j) }) <= 1
    /\ (njobs >= 1 /\ ~DoneConsumed(njobs)) =>
          (btn_start = "disabled" /\ ~CanPressStart)

\* A second job is running after the first was stopped and has ended.
C7_Witness ==
    /\ njobs = 2
    /\ Active(2)
    /\ worker[1].pc = "finished"
    /\ worker[2].pc = "upscale"
    /\ stop_flag

(* ------------------------------------------------------------------ *)
(* C8                                                                  *)
(* ------------------------------------------------------------------ *)

\* C8 as claimed: once the controller has consumed the Done of the latest
\* job, and until the next start, the start button is enabled, the stop
\* button is disabled and the status is the idle status.
C8_IdleAfterDone ==
    (njobs >= 1 /\ DoneConsumed(njobs)) =>
        /\ btn_start = "normal"
        /\ btn_stop = "disabled"
        /\ status_var = StatusText("ready")

(* ------------------------------------------------------------------ *)
(* C9                                                                  *)
(* ------------------------------------------------------------------ *)

\* An input error in the sense of the claim: a credential is missing, the
\* source is missing or no directory, the destination is missing, or the
\* scale factor is no number or not positive.
InputError(in) ==
    \/ Strip(in.name) = <<>>
    \/ Strip(in.key) = <<>>
    \/ Strip(in.secret) = <<>>
    \/ Strip(in.source) = <<>>
    \/ ~in.source_isdir
    \/ Strip(in.output) = <<>>
    \/ PyFloat(Strip(in.scale)).err
    \/ ~(PyFloat(Strip(in.scale)).val.kind = "num" /\ PyFloat(Strip(in.scale)).val.milli > 0)

\* C9 as claimed: a call of start_processing with an input error spawns no
\* worker, pushes no event, does not write the settings file, and leaves the
\* service configuration, the stop flag and the two buttons as they were.
C9_RejectsInputErrors ==
    [][CanPressStart =>
          \A in \in StartInputs :
              (InputError(in) /\ start_processing(in)) =>
                  UNCHANGED <<worker, njobs, queue, pushed, config_file,
                              cloudinary_cfg, stop_flag, btn_start, btn_stop>>
    ]_vars

(* ------------------------------------------------------------------ *)
(* C10                                                                 *)
(* ------------------------------------------------------------------ *)

\* str.lower on one character of the names used.
LowerChar(c) ==
    CASE c = "J" -> "j" [] c = "P" -> "p" [] c = "G" -> "g" [] c = "E" -> "e"
      [] c = "N" -> "n" [] OTHER -> c

Lower(s) == [i \in 1..Len(s) |-> LowerChar(s[i])]

\* A candidate in the sense of the claim: a regular file whose extension,
\* case ignored, is jpg, jpeg or png.
IsCandidate(f) ==
    /\ f.is_file
    /\ Lower(Suffix(f.name)) \in
         { <<".", "j", "p", "g">>, <<".", "j", "p", "e", "g">>, <<".", "p", "n", "g">> }

\* C10 as claimed: the list the worker fixes at job start holds exactly the
\* candidates of the source directory.
C10_CandidatesCaseInsensitive ==
    \A j \in Jobs :
        worker[j].pc = "loop" =>
            worker[j].image_files = SelectSeq(src_dir, IsCandidate)

(* ------------------------------------------------------------------ *)
(* C11                                                                 *)
(* ------------------------------------------------------------------ *)

\* round(m / 1000) for m >= 0, ties to the even neighbour as Python's round.
Round(m) ==
    LET q == m \div 1000
        r == m % 1000
    IN  IF r < 500 THEN q
        ELSE IF r > 500 THEN q + 1
        ELSE IF q % 2 = 0 THEN q ELSE q + 1

\* C11 as claimed: the width of every transformation sent to the service is
\* max(1, round(W * S)) for the original width W and the scale factor S of
\* the call.
C11_TargetWidthRounded ==
    uploaded.sent =>
        uploaded.width = Max(1, Round(uploaded.orig_w * uploaded.scale.milli))

(* ------------------------------------------------------------------ *)
(* C12                                                                 *)
(* ------------------------------------------------------------------ *)

\* C12 as claimed: the step of upscale_image for a file leaves the complete
\* response body at the destination path when it ends in success, and no
\* partial file at that path when it ends in failure.
C12_AllOrNothing ==
    [][\A j \in Jobs :
          (worker[j].pc = "upscale" /\ worker'[j] # worker[j]) =>
              LET path == OutName(worker[j].image_files[worker[j].idx].name)
                  e == pushed'[Len(pushed')]
              IN  /\ Len(pushed') = Len(pushed) + 1
                  /\ e.ok =>
                        \E f \in out_files' : f.name = path /\ f.content = "full"
                  /\ ~e.ok =>
                        ~\E f \in out_files' : f.name = path /\ f.content = "partial"
    ]_vars

(* ------------------------------------------------------------------ *)
(* C13                                                                 *)
(* ------------------------------------------------------------------ *)

\* The files of the destination directory that job j wrote.
WrittenBy(j) == { f \in out_files : f.job = j }

\* C13 as claimed: for the latest job, every successful Result for a source
\* file f has the complete file "u" + f in the destination, every file the
\* job wrote belongs to a file it attempted, and once the worker has returned
\* the number of files the job wrote is the successful count of its Done.
C13_OneFilePerSuccess ==
    \A j \in Jobs :
        j = njobs =>
            LET res == Results(j)
                ev == JobEvents(j)
            IN  /\ \A i \in 1..Len(res) :
                      res[i].ok =>
                          [name |-> OutName(res[i].name), content |-> "full",
                           job |-> j] \in out_files
                /\ \A f \in WrittenBy(j) :
                      \E i \in 1..Len(res) : f.name = OutName(res[i].name)
                /\ Returned(j) =>
                      Cardinality(WrittenBy(j)) = ev[Len(ev)].successful

(* ------------------------------------------------------------------ *)
(* C14                                                                 *)
(* ------------------------------------------------------------------ *)

\* C14: in the events of a job every Status for file k is followed directly
\* by the Result for file k, or is the last event while the worker is still
\* processing file k, whenever the stop flag is set; and a job whose flag was
\* first set after the stop check of the last of its N files ends with N
\* Results, no Stopped, and Done.
C14_StopOnlyAtBoundaries ==
    \A j \in Jobs :
        LET ev == JobEvents(j)
        IN  /\ \A p \in 1..Len(ev) :
                  ev[p].typ = "status" =>
                      IF p < Len(ev)
                      THEN ev[p + 1].typ = "progress" /\ ev[p + 1].idx = ev[p].idx
                      ELSE j = njobs /\ worker[j].pc = "upscale"
                                    /\ worker[j].idx = ev[p].idx
            /\ (Returned(j) /\ stop_at[j] = NCandidates) =>
                  /\ Len(Results(j)) = NCandidates
                  /\ OfType(ev, "stopped") = <<>>
                  /\ EndsWithDone(j)

\* The flag was set after the stop check of the second of two files; the job
\* has returned with two Results and no Stopped.
C14_Witness ==
    \E j \in Jobs :
        /\ Returned(j)
        /\ stop_flag
        /\ stop_at[j] = 2
        /\ NCandidates = 2
        /\ Len(Results(j)) = 2
        /\ OfType(JobEvents(j), "stopped") = <<>>

(* ------------------------------------------------------------------ *)
(* C15                                                                 *)
(* ------------------------------------------------------------------ *)

\* C15: a job pushes at most one Stopped, and only when the controller set
\* the stop flag while this job was running; a job during which the flag was
\* not set pushes no Stopped and, once returned, has a Result for every
\* candidate, whatever stop was confirmed during or after an earlier job;
\* and every worker finds the flag cleared when it is spawned.
C15_StoppedOnlyByOwnStop ==
    \A j \in Jobs :
        LET ev == JobEvents(j)
        IN  /\ Len(OfType(ev, "stopped")) <= 1
            /\ OfType(ev, "stopped") # <<>> => (stop_at[j] >= 0 /\ stop_flag)
            /\ (j = njobs /\ stop_at[j] = -1 /\ Returned(j)) =>
                  Len(Results(j)) = NCandidates
            /\ (j = njobs /\ worker[j].pc = "mkdir" /\ stop_at[j] = -1) => ~stop_flag

\* The second job was stopped by its own stop after one Result, the first
\* job having ended before.
C15_Witness ==
    /\ njobs = 2
    /\ worker[1].pc = "finished"
    /\ stop_at[2] = 1
    /\ Len(OfType(JobEvents(2), "stopped")) = 1
    /\ Len(Results(2)) = 1

(* ------------------------------------------------------------------ *)
(* C16                                                                 *)
(* ------------------------------------------------------------------ *)

\* The most events one job pushes: Total, Status and Result for each file,
\* Done (a Stopped takes the place of a Status).
MaxEvents == 2 * MaxEntries + 2

\* C16: a poll goes on taking events after each event it handles, Done
\* included, and returns only when it finds the queue empty; whenever no
\* poll is running the next one is scheduled; so with the timer firing every
\* event pushed is eventually consumed.
C16_PollDrainsAll ==
    /\ [][(ctl = "poll" /\ ctl' # "poll") => (queue = <<>> /\ ctl' = "idle")]_vars
    /\ [](ctl = "idle" => ENABLED PollStart)
    /\ \A k \in 1..MaxEvents : (Len(pushed) >= k) ~> (Len(consumed) >= k)

\* A poll has taken every event of a finished job, the Done last, and has
\* not returned yet.
C16_Witness ==
    /\ ctl = "poll"
    /\ queue = <<>>
    /\ Len(consumed) >= 4
    /\ consumed = pushed
    /\ consumed[Len(consumed)].typ = "done"
    /\ btn_start = "normal"

(* ------------------------------------------------------------------ *)
(* C17                                                                 *)
(* ------------------------------------------------------------------ *)

\* C17: whenever start_processing spawns a worker the queue is empty, and
\* every event the controller takes from the queue, and every event waiting
\* on it, was pushed by the latest job: events of two jobs never share the
\* queue and none of an earlier job is consumed after one of a later job.
C17_ChannelPerJob ==
    [][/\ njobs' # njobs => (queue = <<>> /\ queue' = <<>>)
       /\ Len(consumed') > Len(consumed) =>
             consumed'[Len(consumed')].job = njobs
       /\ \A i \in 1..Len(queue') : queue'[i].job = njobs'
       /\ \A i \in 1..Len(consumed') : consumed'[i].job = njobs'
    ]_vars

\* The second job's events are on the queue the first job used: some are
\* consumed, some are waiting.
C17_Witness ==
    /\ njobs = 2
    /\ Len(consumed) >= 2
    /\ Len(queue) >= 1
    /\ \A i \in 1..Len(consumed) : consumed[i].job = 2
    /\ \A i \in 1..Len(queue) : queue[i].job = 2

(* ------------------------------------------------------------------ *)
(* C18                                                                 *)
(* ------------------------------------------------------------------ *)

\* The step is a step of a worker thread.
WorkerStep == \E j \in Jobs : worker[j].pc # "unborn" /\ worker'[j] # worker[j]

\* q2 is q1, or q1 with one item appended.
AppendsTo(q1, q2) ==
    /\ Len(q2) \in {Len(q1), Len(q1) + 1}
    /\ SubSeq(q2, 1, Len(q1)) = q1

C19_SecretOnlyIfOptionOn ==
    [][/\ config_file' # config_file => njobs' = njobs + 1
       /\ \A in \in StartInputs :
             StartAccepted(in) =>
                 /\ (in.save_secret /\ config_file' # config_file) =>
                       config_file'.api_secret = Strip(in.secret)
                 /\ ~in.save_secret => config_file'.api_secret = <<>>
    ]_vars

====
